---- MODULE Spec2Model ----
(***************************************************************************)
(* The KML 3D viewer (src/unnamed/part_000): the folder/placemark tree and *)
(* its tri-state toggles, the reconciliation of placemarks with the        *)
(* renderer's entities, and the projection of the toggles onto the         *)
(* entities' show flags.                                                   *)
(*                                                                         *)
(* Conventions of the model                                                *)
(*  - a node id "n<k>" is the integer k; a null id is 0;                   *)
(*  - a coordinate is <<lon, lat>> in micro-degrees (1e-6 degree); a null  *)
(*    or undefined coordinate is <<>>;                                     *)
(*  - a JavaScript Map that is only read by key is a function; a Map whose *)
(*    insertion order is iterated is a sequence of entries;                *)
(*  - an entity is named by its position in its collection (its Cesium id).*)
(***************************************************************************)
EXTENDS Integers, Sequences, FiniteSets, Bags, TLC

\* ------------------------------------------------------------------ bounds

\* The file input offers the documents DocLibrary[1..MaxDoc].
MaxDoc == 4
\* The renderer answers a load with one of CollLibrary[1..MaxColl].
MaxColl == 2
\* The documents and collections the core functions are applied to on their
\* own: DocLibrary[1..MaxFnDoc] and CollLibrary[1..MaxFnColl].
MaxFnDoc == 7
MaxFnColl == 5
\* loadKml calls that may be suspended at an await at the same time.
MaxInflight == 1
\* loadKml calls in flight at a time, in the specification of the loads alone
MaxOverlap == 2

\* --------------------------------------------------------- bounded inputs

C1a == <<-122000000, 37000000>>
C1b == <<-122000004, 37000004>>
C2a == <<-122001000, 37001000>>
C3a == <<-122000400, 37000700>>

\* One whitespace-separated token of a <coordinates> text: the numbers its
\* first two comma-separated fields convert to, and whether both are finite.
Tok(c) == [lon |-> c[1], lat |-> c[2], finite |-> TRUE]
BadTok == [lon |-> 0, lat |-> 0, finite |-> FALSE]

\* An element: tagName, the text of its own <name> child ("" when absent), the
\* tokens of its first geometry <coordinates>, and its child elements.
El(tag, name, coords, kids) ==
  [tagName |-> tag, name |-> name, coordinates |-> coords, children |-> kids]
NoEl == El("", "", <<>>, <<>>)
Pm(name, coords) == El("Placemark", name, coords, <<>>)

\* A file: whether the XML parser reports a parsererror, and the document.
Xml(kids) == [parsererror |-> FALSE, root |-> El("kml", "", <<>>, kids)]
BadXml == [parsererror |-> TRUE, root |-> El("parsererror", "", <<>>, <<>>)]

DocLibrary ==
  << \* 1: Root{Folder A{P1 'Site' at C1a, P2 'Site' at C2a}}
     Xml(<< El("Document", "Root", <<>>,
             << El("Folder", "A", <<>>,
                   << Pm("Site", <<Tok(C1a)>>), Pm("Site", <<Tok(C2a), Tok(C3a)>>) >>) >>) >>),
     \* 2: a Document with no feature in it
     Xml(<< El("Document", "", <<>>, << El("Style", "", <<>>, <<>>) >>) >>),
     \* 3: not well-formed
     BadXml,
     \* 4: no Document and no Folder
     Xml(<< Pm("Site", <<Tok(C1a)>>) >>),
     \* 5: a Folder root holding a childless folder
     Xml(<< El("Folder", "F", <<>>, << El("Folder", "", <<>>, <<>>) >>) >>),
     \* 6: a Style, a folder of one placemark, a placemark with unparsable coordinates
     Xml(<< El("Document", "", <<>>,
             << El("Style", "", <<>>, <<>>),
                El("Folder", "A", <<>>, << Pm("Site", <<Tok(C1a)>>) >>),
                Pm("B", <<BadTok>>) >>) >>),
     \* 7: two placemarks whose keys collide
     Xml(<< El("Document", "D", <<>>,
             << Pm("Site", <<Tok(C1a)>>), Pm(" Site ", <<Tok(C1b)>>) >>) >>),
     \* 8: two placemarks of one name, one without coordinates
     Xml(<< El("Document", "Root", <<>>, << Pm("B", <<>>), Pm("B", <<Tok(C2a)>>) >>) >>)
  >>

\* An entity of the renderer: name ("" when undefined), position (<<>> when
\* absent), polyline (<<>> when absent, else <<positions>>), polygon, and whether
\* it carries a label and a billboard.  New entities are shown.
Ent(name, position, polyline, polygon, label, billboard) ==
  [name |-> name, position |-> position, polyline |-> polyline, polygon |-> polygon,
   label |-> label, billboard |-> billboard,
   show |-> TRUE, labelShow |-> TRUE, billboardShow |-> TRUE]
Point(name, c) == Ent(name, c, <<>>, FALSE, TRUE, TRUE)

CollLibrary ==
  << \* 1: two 'Site' points at C2a and C1a
     << Point("Site", C2a), Point("Site", C1a) >>,
     \* 2: one 'Site' point at C2a
     << Point("Site", C2a) >>,
     \* 3: a folder entity, a polyline, a polygon
     << Ent("A", <<>>, <<>>, FALSE, FALSE, FALSE),
        Ent(" Site ", <<>>, << <<C1b, C3a>> >>, FALSE, FALSE, FALSE),
        Ent("B", <<>>, <<>>, TRUE, TRUE, FALSE) >>,
     \* 4: an entity without geometry named like a placemark, and a point
     << Ent("B", <<>>, <<>>, FALSE, FALSE, FALSE), Point("Site", C1a) >>,
     \* 5: an unnamed point and two 'B' points
     << Point("", C1a), Point("B", C3a), Point("B", C2a) >>,
     \* 6: two 'Site' polygons, which expose no coordinate
     << Ent("Site", <<>>, <<>>, TRUE, FALSE, FALSE),
        Ent("Site", <<>>, <<>>, TRUE, TRUE, TRUE) >> >>

\* The texts typed into the search box.
FilterTexts == {"", "si"}

\* String.prototype.trim on the names above.
Trim(s) == IF s = " Site " THEN "Site" ELSE s

Range(s) == {s[i] : i \in DOMAIN s}

\* Map.prototype.set on a Map that is read by key only.
MapSet(m, k, v) == [x \in (DOMAIN m) \cup {k} |-> IF x = k THEN v ELSE m[x]]
EmptyMap == [x \in {} |-> <<>>]

\* ------------------------------------------------------------------- keys

\* roundCoord(n, 5) of a finite n given in micro-degrees: Math.round(v * 1e5),
\* that is floor(v * 1e5 + 0.5), kept in units of 1e-5 degree.
roundCoord(n) == (n + 5) \div 10

\* coordKey: <<>> (null) when lon or lat is undefined, else the rounded pair.
coordKey(c) == IF c = <<>> THEN <<>> ELSE <<roundCoord(c[1]), roundCoord(c[2])>>

\* placemarkKey: `${nm}|${ck}`, or nm alone without a coordinate.
placemarkKey(name, c) ==
  LET ck == coordKey(c)
      nm == Trim(name)
  IN IF ck # <<>> THEN <<nm, ck[1], ck[2]>> ELSE <<nm>>

\* cos(lat1) * cos(lat2) in percent, for the latitudes of the inputs (37 N).
CosProductPercent == 64

\* haversineMeters orders the candidates only; on the inputs above (points
\* within 0.002 degree of each other) 2R asin(sqrt(h)) is ordered as the
\* small-angle form of h is: dLat^2 + cos(lat1) cos(lat2) dLon^2.
haversineMeters(a, b) ==
  LET dLat == b[2] - a[2]
      dLon == b[1] - a[1]
  IN dLat * dLat * 100 + CosProductPercent * dLon * dLon

\* ------------------------------------------------------------ KML parsing

getChildFeatures(featureEl) ==
  SelectSeq(featureEl.children,
            LAMBDA c : c.tagName \in {"Folder", "Placemark", "Document"})

getFeatureName(featureEl) ==
  LET name == Trim(featureEl.name)
  IN IF name # "" THEN name ELSE featureEl.tagName

firstCoordFromPlacemark(placemarkEl) ==
  LET txt == placemarkEl.coordinates
  IN IF txt = <<>> THEN <<>>
     ELSE LET firstToken == txt[1]
          IN IF ~firstToken.finite THEN <<>> ELSE <<firstToken.lon, firstToken.lat>>

RECURSIVE getElementsByTagName(_, _)
\* The elements of the given tag among els and their descendants, in
\* document order.
getElementsByTagName(els, tag) ==
  IF els = <<>> THEN <<>>
  ELSE LET h == Head(els)
       IN (IF h.tagName = tag THEN <<h>> ELSE <<>>)
          \o getElementsByTagName(h.children, tag)
          \o getElementsByTagName(Tail(els), tag)

findRootFeature(xml) ==
  LET docEls == getElementsByTagName(<<xml.root>>, "Document")
      folderEls == getElementsByTagName(<<xml.root>>, "Folder")
  IN IF docEls # <<>> THEN docEls[1]
     ELSE IF folderEls # <<>> THEN folderEls[1]
     ELSE NoEl

\* Map.prototype.set on placemarkIndex, whose entries are iterated in
\* insertion order: a key that is set again keeps its place.
IndexSet(index, key, el) ==
  IF \E i \in DOMAIN index : index[i].key = key
    THEN [i \in DOMAIN index |->
            IF index[i].key = key THEN [key |-> key, placemarkEl |-> el] ELSE index[i]]
    ELSE Append(index, [key |-> key, placemarkEl |-> el])

\* Dedupe that keeps every occurrence.
DedupeNone(keys) == keys

\* Array.from(new Set(keys)): the first occurrence of each key, in order.
RECURSIVE Dedupe(_)
Dedupe(keys) ==
  IF keys = <<>> THEN <<>>
  ELSE LET init == Dedupe(SubSeq(keys, 1, Len(keys) - 1))
           last == keys[Len(keys)]
       IN IF last \in Range(init) THEN init ELSE Append(init, last)

RECURSIVE buildNode(_, _, _)
RECURSIVE buildChildren(_, _, _)
\* buildNode(featureEl, parentId, pathNames) on the tree built so far:
\* acc = [nodesById, placemarkIndex, id], id being the node returned.
buildNode(featureEl, parentId, acc) ==
  LET tag == featureEl.tagName
      name == getFeatureName(featureEl)
      id == Len(acc.nodesById) + 1
      node == [id |-> id, parentId |-> parentId, name |-> name, tag |-> tag,
               children |-> <<>>, checked |-> TRUE, indeterminate |-> FALSE,
               expanded |-> (tag # "Placemark"), placemarkKeys |-> <<>>]
      nodes1 == Append(acc.nodesById, node)
  IN IF tag = "Placemark"
       THEN LET key == placemarkKey(name, firstCoordFromPlacemark(featureEl))
            IN [nodesById |-> [nodes1 EXCEPT ![id].placemarkKeys = <<key>>],
                placemarkIndex |-> IndexSet(acc.placemarkIndex, key, featureEl),
                id |-> id]
       ELSE LET built == buildChildren(getChildFeatures(featureEl), id,
                                       [acc EXCEPT !.nodesById = nodes1, !.id = id])
                keys == built.nodesById[id].placemarkKeys
            IN [built EXCEPT !.nodesById[id].placemarkKeys =
                               IF Len(keys) > 1 THEN Dedupe(keys) ELSE keys,
                             !.id = id]

\* The loop over getChildFeatures(featureEl) in buildNode.
buildChildren(childEls, id, acc) ==
  IF childEls = <<>> THEN acc
  ELSE LET b == buildNode(Head(childEls), id, acc)
           childNode == b.nodesById[b.id]
           nodes2 == [b.nodesById EXCEPT
                        ![id].children = Append(@, childNode.id),
                        ![id].placemarkKeys = @ \o childNode.placemarkKeys]
       IN buildChildren(Tail(childEls), id, [b EXCEPT !.nodesById = nodes2])

buildTreeFromKml(rootFeatureEl) ==
  LET b == buildNode(rootFeatureEl, 0, [nodesById |-> <<>>, placemarkIndex |-> <<>>, id |-> 0])
  IN [nodesById |-> b.nodesById, rootNodeId |-> b.id, placemarkIndex |-> b.placemarkIndex]

\* ------------------------------------------------------------ toggle math

RECURSIVE setCheckedRecursive(_, _, _)
RECURSIVE setCheckedChildren(_, _, _)
setCheckedRecursive(nodes, nodeId, checked) ==
  IF nodeId \notin DOMAIN nodes THEN nodes
  ELSE setCheckedChildren(
         [nodes EXCEPT ![nodeId].checked = checked, ![nodeId].indeterminate = FALSE],
         nodes[nodeId].children, checked)

\* The loop over node.children in setCheckedRecursive.
setCheckedChildren(nodes, children, checked) ==
  IF children = <<>> THEN nodes
  ELSE setCheckedChildren(setCheckedRecursive(nodes, Head(children), checked),
                          Tail(children), checked)

\* Boolean(c?.checked), Boolean(c?.indeterminate) of a child id.
childChecked(nodes, id) == id \in DOMAIN nodes /\ nodes[id].checked
childInd(nodes, id) == id \in DOMAIN nodes /\ nodes[id].indeterminate

\* recomputeNode with the all-unchecked test made first and on the
\* indeterminate flags alone.
recomputeNodeUncheckedFirst(nodes, nodeId) ==
  LET node == nodes[nodeId]
      kids == Range(node.children)
      allChecked == \A c \in kids : childChecked(nodes, c) /\ ~childInd(nodes, c)
      allUnchecked == \A c \in kids : ~childInd(nodes, c)
  IN IF Len(node.children) = 0
       THEN [nodes EXCEPT ![nodeId].indeterminate = FALSE]
     ELSE IF allUnchecked
       THEN [nodes EXCEPT ![nodeId].checked = FALSE, ![nodeId].indeterminate = FALSE]
     ELSE IF allChecked
       THEN [nodes EXCEPT ![nodeId].checked = TRUE, ![nodeId].indeterminate = FALSE]
     ELSE [nodes EXCEPT ![nodeId].checked = TRUE, ![nodeId].indeterminate = TRUE]

\* recomputeNode whose mixed case sets the indeterminate flag and leaves
\* checked as it was.
recomputeNodeMixedKeepsChecked(nodes, nodeId) ==
  LET node == nodes[nodeId]
      kids == Range(node.children)
      allChecked == \A c \in kids : childChecked(nodes, c) /\ ~childInd(nodes, c)
      allUnchecked == \A c \in kids : ~childChecked(nodes, c) /\ ~childInd(nodes, c)
  IN IF Len(node.children) = 0
       THEN [nodes EXCEPT ![nodeId].indeterminate = FALSE]
     ELSE IF allChecked
       THEN [nodes EXCEPT ![nodeId].checked = TRUE, ![nodeId].indeterminate = FALSE]
     ELSE IF allUnchecked
       THEN [nodes EXCEPT ![nodeId].checked = FALSE, ![nodeId].indeterminate = FALSE]
     ELSE [nodes EXCEPT ![nodeId].indeterminate = TRUE]

\* One turn of the loop of recomputeIndeterminateUp: the node's own fields.
recomputeNode(nodes, nodeId) ==
  LET node == nodes[nodeId]
      kids == Range(node.children)
      allChecked == \A c \in kids : childChecked(nodes, c) /\ ~childInd(nodes, c)
      allUnchecked == \A c \in kids : ~childChecked(nodes, c) /\ ~childInd(nodes, c)
  IN IF Len(node.children) = 0
       THEN [nodes EXCEPT ![nodeId].indeterminate = FALSE]
     ELSE IF allChecked
       THEN [nodes EXCEPT ![nodeId].checked = TRUE, ![nodeId].indeterminate = FALSE]
     ELSE IF allUnchecked
       THEN [nodes EXCEPT ![nodeId].checked = FALSE, ![nodeId].indeterminate = FALSE]
     ELSE [nodes EXCEPT ![nodeId].checked = TRUE, ![nodeId].indeterminate = TRUE]

\* recomputeIndeterminateUp that stops after its first node.
recomputeIndeterminateUpOnce(nodes, nodeId) ==
  IF nodeId \notin DOMAIN nodes THEN nodes ELSE recomputeNode(nodes, nodeId)

RECURSIVE recomputeIndeterminateUp(_, _)
recomputeIndeterminateUp(nodes, nodeId) ==
  IF nodeId \notin DOMAIN nodes THEN nodes
  ELSE LET nodes1 == recomputeNode(nodes, nodeId)
       IN IF nodes[nodeId].parentId = 0 THEN nodes1
          ELSE recomputeIndeterminateUp(nodes1, nodes[nodeId].parentId)

\* setExpandedRecursive that sets the node's checkbox with its expanded field.
setExpandedRecursiveSetsChecked(nodes, nodeId, expanded) ==
  IF nodeId \notin DOMAIN nodes THEN nodes
  ELSE IF Len(nodes[nodeId].children) = 0 THEN nodes
  ELSE [nodes EXCEPT ![nodeId].expanded = expanded, ![nodeId].checked = expanded]

RECURSIVE setExpandedRecursive(_, _, _)
RECURSIVE setExpandedChildren(_, _, _)
setExpandedRecursive(nodes, nodeId, expanded) ==
  IF nodeId \notin DOMAIN nodes THEN nodes
  ELSE IF Len(nodes[nodeId].children) = 0 THEN nodes
  ELSE setExpandedChildren([nodes EXCEPT ![nodeId].expanded = expanded],
                           nodes[nodeId].children, expanded)

\* The loop over node.children in setExpandedRecursive.
setExpandedChildren(nodes, children, expanded) ==
  IF children = <<>> THEN nodes
  ELSE setExpandedChildren(setExpandedRecursive(nodes, Head(children), expanded),
                           Tail(children), expanded)

RECURSIVE effectiveUp(_, _)
\* The while loop of getEffectiveChecked, cur being a node already found checked.
effectiveUp(nodes, cur) ==
  IF nodes[cur].parentId = 0 THEN TRUE
  ELSE LET p == nodes[cur].parentId
       IN IF p \notin DOMAIN nodes \/ ~nodes[p].checked THEN FALSE
          ELSE effectiveUp(nodes, p)

\* getEffectiveChecked that reads the node's own checkbox only.
getEffectiveCheckedSelfOnly(nodes, nodeId) ==
  IF nodeId \notin DOMAIN nodes THEN FALSE ELSE nodes[nodeId].checked

\* getEffectiveChecked that looks no higher than the node's parent.
getEffectiveCheckedOneLevel(nodes, nodeId) ==
  IF nodeId \notin DOMAIN nodes THEN FALSE
  ELSE IF ~nodes[nodeId].checked THEN FALSE
  ELSE LET p == nodes[nodeId].parentId
       IN p = 0 \/ (p \in DOMAIN nodes /\ nodes[p].checked)

getEffectiveChecked(nodes, nodeId) ==
  IF nodeId \notin DOMAIN nodes THEN FALSE
  ELSE IF ~nodes[nodeId].checked THEN FALSE
  ELSE effectiveUp(nodes, nodeId)

\* ------------------------------------------- entity indexing & visibility

\* let state = { ... } and let kmlDataSource = null, as the script leaves them.
NoDataSource == [coll |-> 0, doc |-> 0, entities |-> <<>>]

InitialState ==
  [fileName |-> 0, nodesById |-> <<>>, rootNodeId |-> 0,
   entityIndex |-> EmptyMap, placemarkIndex |-> <<>>, placemarkToEntity |-> EmptyMap,
   filterText |-> "", userHasInteracted |-> FALSE]

firstCoordFromEntity(entity) ==
  IF entity.position # <<>> THEN entity.position
  ELSE IF entity.polyline # <<>> /\ entity.polyline[1] # <<>> THEN entity.polyline[1][1]
  ELSE <<>>

RECURSIVE entityIndexFrom(_, _, _)
\* The loop of rebuildEntityIndex from entity i on.
entityIndexFrom(ents, i, index) ==
  IF i > Len(ents) THEN index
  ELSE LET key == placemarkKey(ents[i].name, firstCoordFromEntity(ents[i]))
           arr == IF key \in DOMAIN index THEN index[key] ELSE <<>>
       IN entityIndexFrom(ents, i + 1, MapSet(index, key, Append(arr, i)))

rebuildEntityIndex(st, ds) ==
  IF ds.coll = 0 THEN [st EXCEPT !.entityIndex = EmptyMap]
  ELSE [st EXCEPT !.entityIndex = entityIndexFrom(ds.entities, 1, EmptyMap)]

\* Whether the entity is a candidate: it has some geometry.
hasGeometry(e) == e.position # <<>> \/ e.polyline # <<>> \/ e.polygon

\* byName.get(name): the candidates of that trimmed name, in collection order.
byName(ents, name) ==
  SelectSeq([i \in DOMAIN ents |-> i],
            LAMBDA i : hasGeometry(ents[i]) /\ Trim(ents[i].name) = name)

RECURSIVE nearestCandidate(_, _, _, _, _)
\* The distance loop: best = 0 stands for best = null and bestDist = Infinity.
nearestCandidate(ents, candidates, pmCoord, best, bestDist) ==
  IF candidates = <<>> THEN best
  ELSE LET c == Head(candidates)
           coord == firstCoordFromEntity(ents[c])
       IN IF coord = <<>>
            THEN nearestCandidate(ents, Tail(candidates), pmCoord, best, bestDist)
          ELSE LET d == haversineMeters(pmCoord, coord)
               IN IF best = 0 \/ d < bestDist
                    THEN nearestCandidate(ents, Tail(candidates), pmCoord, c, d)
                    ELSE nearestCandidate(ents, Tail(candidates), pmCoord, best, bestDist)

\* The name match of one placemark among the entities not yet used: the
\* entity chosen, 0 for none.
bestCandidate(ents, pmEl, used) ==
  LET pmName == getFeatureName(pmEl)
      pmCoord == firstCoordFromPlacemark(pmEl)
      candidates == SelectSeq(byName(ents, Trim(pmName)), LAMBDA c : c \notin used)
  IN IF Len(candidates) = 1 THEN candidates[1]
     ELSE IF Len(candidates) > 1 /\ pmCoord # <<>>
       THEN LET best == nearestCandidate(ents, candidates, pmCoord, 0, 0)
            IN IF best = 0 THEN candidates[1] ELSE best
     ELSE 0

\* What the exact-key fallback assigns to pmKey: entityIndex.get(pmKey).
exactMatch(entityIndex, pmKey) ==
  IF pmKey \in DOMAIN entityIndex THEN entityIndex[pmKey] ELSE <<>>

RECURSIVE matchPlacemarks(_, _, _, _, _, _)
\* The loop over state.placemarkIndex.entries() from entry i on.
matchPlacemarks(placemarkIndex, i, ents, entityIndex, map, used) ==
  IF i > Len(placemarkIndex) THEN map
  ELSE LET pmKey == placemarkIndex[i].key
           best == bestCandidate(ents, placemarkIndex[i].placemarkEl, used)
           exact == exactMatch(entityIndex, pmKey)
       IN IF best = 0 /\ Len(exact) > 0
            THEN matchPlacemarks(placemarkIndex, i + 1, ents, entityIndex,
                                 MapSet(map, pmKey, exact), used \cup Range(exact))
          ELSE IF best # 0
            THEN matchPlacemarks(placemarkIndex, i + 1, ents, entityIndex,
                                 MapSet(map, pmKey, <<best>>), used \cup {best})
          ELSE matchPlacemarks(placemarkIndex, i + 1, ents, entityIndex, map, used)

\* rebuildPlacemarkToEntityMap that goes on from the map it finds.
rebuildPlacemarkToEntityMapNoReset(st, ds) ==
  IF ds.coll = 0 \/ Len(st.placemarkIndex) = 0 THEN st
  ELSE [st EXCEPT !.placemarkToEntity =
          matchPlacemarks(st.placemarkIndex, 1, ds.entities, st.entityIndex,
                          st.placemarkToEntity, {})]

rebuildPlacemarkToEntityMap(st, ds) ==
  IF ds.coll = 0 \/ Len(st.placemarkIndex) = 0
    THEN [st EXCEPT !.placemarkToEntity = EmptyMap]
    ELSE [st EXCEPT !.placemarkToEntity =
            matchPlacemarks(st.placemarkIndex, 1, ds.entities, st.entityIndex, EmptyMap, {})]

RECURSIVE enabledKeysFrom(_, _, _)
\* The loop building enabledKeys from node i on (a Set: each key once).
enabledKeysFrom(nodes, i, keys) ==
  IF i > Len(nodes) THEN keys
  ELSE IF nodes[i].tag = "Placemark" /\ getEffectiveChecked(nodes, nodes[i].id)
    THEN enabledKeysFrom(nodes, i + 1, Dedupe(keys \o nodes[i].placemarkKeys))
  ELSE enabledKeysFrom(nodes, i + 1, keys)

setShowAll(ents, value) == [i \in DOMAIN ents |-> [ents[i] EXCEPT !.show = value]]

RECURSIVE showEnabled(_, _, _)
\* The loop over enabledKeys that shows the entities mapped to each key.
showEnabled(ents, keys, map) ==
  IF keys = <<>> THEN ents
  ELSE LET key == Head(keys)
           entities == IF key \in DOMAIN map THEN Range(map[key]) ELSE {}
       IN showEnabled([i \in DOMAIN ents |->
                         IF i \in entities THEN [ents[i] EXCEPT !.show = TRUE] ELSE ents[i]],
                      Tail(keys), map)

\* The label pass: label.show and billboard.show of the entities that have one.
setLabels(ents, hideLabels) ==
  [i \in DOMAIN ents |->
     [ents[i] EXCEPT !.labelShow = IF ents[i].label THEN ~hideLabels ELSE @,
                     !.billboardShow = IF ents[i].billboard THEN ~hideLabels ELSE @]]

\* visibilityBranch without the test for a map that is still empty.
visibilityBranchNoMissing(st, ds) ==
  IF ds.coll = 0 THEN "none"
  ELSE IF st.userHasInteracted THEN "authoritative"
  ELSE "permissive"

\* The branch applyVisibilityFromTree takes on a state whose map has already
\* been rebuilt when it was empty.
visibilityBranch(st, ds) ==
  IF ds.coll = 0 THEN "none"
  ELSE IF Cardinality(DOMAIN st.placemarkToEntity) = 0 THEN "missing"
  ELSE IF st.userHasInteracted THEN "authoritative"
  ELSE "permissive"

\* applyVisibilityFromTree on state, kmlDataSource and els.hideLabels.checked:
\* the state and the data source it leaves, and the branch it took.
applyVisibilityFromTree(st, ds, hideLabels) ==
  IF ds.coll = 0 THEN [state |-> st, kmlDataSource |-> ds, branch |-> "none"]
  ELSE
    LET enabledKeys == enabledKeysFrom(st.nodesById, 1, <<>>)
        st1 == IF Cardinality(DOMAIN st.placemarkToEntity) = 0
                 THEN rebuildPlacemarkToEntityMap(st, ds) ELSE st
        branch == visibilityBranch(st1, ds)
        ents == ds.entities
    IN IF branch = "missing"
         THEN [state |-> st1, branch |-> branch,
               kmlDataSource |-> [ds EXCEPT !.entities = setShowAll(ents, TRUE)]]
       ELSE IF branch = "authoritative"
         THEN [state |-> st1, branch |-> branch,
               kmlDataSource |-> [ds EXCEPT !.entities =
                  setLabels(showEnabled(setShowAll(ents, FALSE), enabledKeys,
                                        st1.placemarkToEntity), hideLabels)]]
       ELSE [state |-> st1, branch |-> branch,
             kmlDataSource |-> [ds EXCEPT !.entities =
                                  setLabels(setShowAll(ents, TRUE), hideLabels)]]

\* ------------------------------------------------------------------ state

VARIABLES
  state,         \* the script's state object
  kmlDataSource, \* the current collection, NoDataSource for null
  dataSources,   \* viewer.dataSources, of the collections the script still refers to
  hideLabels,    \* els.hideLabels.checked
  loads,         \* the bag of loadKml calls in flight: the await each is at, its file,
                 \* and history: what was installed when it started, whether the
                 \* removal threw, what else was in flight with it
  lastOp         \* history: the operation that ran last and what it was given

vars == <<state, kmlDataSource, dataSources, hideLabels, loads, lastOp>>

\* A loadKml call suspended at the await pc, reading document doc.  History:
\* prev is state.fileName when the call started; threw, whether
\* viewer.dataSources.remove threw in it; burst is "single" while no other call
\* has been in flight with it, "overlap" once one has, "failed" once one of
\* those has failed.
Call(pc, doc, prev, threw, burst) ==
  [pc |-> pc, doc |-> doc, prev |-> prev, threw |-> threw, burst |-> burst]
Calls == BagToSet(loads)
\* The call l at its next await.
At(l, pc) == [l EXCEPT !.pc = pc]
\* The calls in flight carry one burst word; the bag with that word replaced.
Remark(b, word) ==
  LET old(t) == CHOOSE x \in BagToSet(b) : [x EXCEPT !.burst = word] = t
  IN [t \in {[x EXCEPT !.burst = word] : x \in BagToSet(b)} |-> b[old(t)]]
\* The bag after the call l has moved on: to the calls of set next.
Resume(l, next) == (loads (-) SetToBag({l})) (+) SetToBag(next)

\* History record: the operation, its node and value arguments, and a fact
\* (a word, "" for none) of the state it started in.  The handlers that leave the checkboxes alone
\* (navigation, search, labels, the steps of a load) all record Other.
Op(op, node, val, pre) == [op |-> op, node |-> node, val |-> val, pre |-> pre]
Other == Op("other", 0, FALSE, "")

mapEmpty(st) == Cardinality(DOMAIN st.placemarkToEntity) = 0

\* The identity under which a collection is attached to the viewer.
sourceId(ds) == [coll |-> ds.coll, doc |-> ds.doc]

Init ==
  /\ state = InitialState
  /\ kmlDataSource = NoDataSource
  /\ dataSources = {}
  /\ hideLabels = FALSE
  /\ loads = EmptyBag
  /\ lastOp = Other

\* The tail shared by the handlers that end in applyVisibilityFromTree().
Project(st, hide, op, node, val) ==
  LET r == applyVisibilityFromTree(st, kmlDataSource, hide)
  IN /\ state' = r.state
     /\ kmlDataSource' = r.kmlDataSource
     /\ lastOp' = Op(op, node, val, IF mapEmpty(st) THEN "empty" ELSE "mapped")

\* --------------------------------------------------------------- handlers

\* click on a twisty
ToggleExpand(id) ==
  /\ id \in DOMAIN state.nodesById
  /\ Len(state.nodesById[id].children) # 0
  /\ state' = [state EXCEPT !.nodesById[id].expanded = ~@]
  /\ lastOp' = Other
  /\ UNCHANGED <<kmlDataSource, dataSources, hideLabels, loads>>

\* ToggleChecked without the call of recomputeIndeterminateUp.
ToggleCheckedNoRecompute(id, checked) ==
  /\ id \in DOMAIN state.nodesById
  /\ Project([state EXCEPT !.nodesById = setCheckedRecursive(@, id, checked),
                           !.userHasInteracted = TRUE],
             hideLabels, "toggleChecked", id, checked)
  /\ UNCHANGED <<dataSources, hideLabels, loads>>

\* change of a node's checkbox to inp.checked = checked
ToggleChecked(id, checked) ==
  /\ id \in DOMAIN state.nodesById
  /\ LET node == state.nodesById[id]
         nodes1 == setCheckedRecursive(state.nodesById, id, checked)
         nodes2 == IF node.parentId # 0
                     THEN recomputeIndeterminateUp(nodes1, node.parentId) ELSE nodes1
     IN Project([state EXCEPT !.nodesById = nodes2, !.userHasInteracted = TRUE],
                hideLabels, "toggleChecked", id, checked)
  /\ UNCHANGED <<dataSources, hideLabels, loads>>

ExpandAll ==
  /\ state.rootNodeId # 0
  /\ state' = [state EXCEPT !.nodesById = setExpandedRecursive(@, state.rootNodeId, TRUE)]
  /\ lastOp' = Other
  /\ UNCHANGED <<kmlDataSource, dataSources, hideLabels, loads>>

CollapseAll ==
  /\ state.rootNodeId # 0
  /\ LET nodes1 == setExpandedRecursive(state.nodesById, state.rootNodeId, FALSE)
     IN state' = [state EXCEPT !.nodesById =
                    IF state.rootNodeId \in DOMAIN nodes1
                      THEN [nodes1 EXCEPT ![state.rootNodeId].expanded = TRUE]
                      ELSE nodes1]
  /\ lastOp' = Other
  /\ UNCHANGED <<kmlDataSource, dataSources, hideLabels, loads>>

CheckAll ==
  /\ state.rootNodeId # 0
  /\ Project([state EXCEPT !.nodesById = setCheckedRecursive(@, state.rootNodeId, TRUE),
                           !.userHasInteracted = TRUE],
             hideLabels, "checkAll", 0, TRUE)
  /\ UNCHANGED <<dataSources, hideLabels, loads>>

\* uncheckAll without the root's fix-up.
UncheckAllNoRootFix ==
  /\ state.rootNodeId # 0
  /\ Project([state EXCEPT !.nodesById = setCheckedRecursive(state.nodesById, state.rootNodeId, FALSE),
                           !.userHasInteracted = TRUE],
             hideLabels, "uncheckAll", 0, FALSE)
  /\ UNCHANGED <<dataSources, hideLabels, loads>>

UncheckAll ==
  /\ state.rootNodeId # 0
  /\ LET nodes1 == setCheckedRecursive(state.nodesById, state.rootNodeId, FALSE)
         nodes2 == IF state.rootNodeId \in DOMAIN nodes1
                     THEN [nodes1 EXCEPT ![state.rootNodeId].checked = TRUE,
                                         ![state.rootNodeId].indeterminate = TRUE]
                     ELSE nodes1
     IN Project([state EXCEPT !.nodesById = nodes2, !.userHasInteracted = TRUE],
                hideLabels, "uncheckAll", 0, FALSE)
  /\ UNCHANGED <<dataSources, hideLabels, loads>>

\* input in the search box
Search(text) ==
  /\ state' = [state EXCEPT !.filterText = text]
  /\ lastOp' = Other
  /\ UNCHANGED <<kmlDataSource, dataSources, hideLabels, loads>>

\* change of the hide-labels checkbox
HideLabelsChange ==
  /\ hideLabels' = ~hideLabels
  /\ Project(state, ~hideLabels, "hideLabels", 0, ~hideLabels)
  /\ UNCHANGED <<dataSources, loads>>

\* ---------------------------------------------------------------- loadKml

\* loadKml(file) starts and runs up to await file.text(); at most max calls
\* are in flight.
StartLoad(d, max) ==
  /\ BagCardinality(loads) < max
  /\ LET word == IF loads = EmptyBag THEN "single"
                 ELSE IF \E x \in Calls : x.burst = "failed" THEN "failed"
                 ELSE "overlap"
     IN loads' = Remark(loads, word)
                   (+) SetToBag({Call("text", d, state.fileName, FALSE, word)})
  /\ lastOp' = Other
  /\ UNCHANGED <<state, kmlDataSource, dataSources, hideLabels>>

\* change of the file input
KmlInputChange(d) == StartLoad(d, MaxInflight)

\* The bag after the call l has thrown: the handler's catch reports it.
Fail(l) == Remark(loads (-) SetToBag({l}), "failed")

\* LoadParsed without the try/catch around viewer.dataSources.remove.
LoadParsedNoCatch(l, removeThrows) ==
  /\ l \in Calls /\ l.pc = "text"
  /\ LET xml == DocLibrary[l.doc]
         root == findRootFeature(xml)
     IN IF xml.parsererror \/ root = NoEl
          THEN /\ ~removeThrows
               /\ loads' = Fail(l)
               /\ lastOp' = Op("loadFailed", l.prev, FALSE, "parse")
               /\ UNCHANGED <<state, dataSources>>
          ELSE LET built == buildTreeFromKml(root)
               IN /\ state' = [state EXCEPT !.fileName = l.doc,
                                            !.filterText = "",
                                            !.nodesById =
                                               [i \in DOMAIN built.nodesById |->
                                                  IF built.nodesById[i].tag # "Placemark"
                                                    THEN [built.nodesById[i] EXCEPT !.expanded = TRUE]
                                                    ELSE built.nodesById[i]],
                                            !.rootNodeId = built.rootNodeId]
                  /\ IF kmlDataSource # NoDataSource
                       THEN IF removeThrows
                              THEN /\ dataSources' = dataSources
                                   /\ loads' = Fail(l)
                                   /\ lastOp' = Op("loadFailed", l.prev, TRUE, "remove")
                              ELSE /\ dataSources' = dataSources \ {sourceId(kmlDataSource)}
                                   /\ loads' = Resume(l, {At(l, "remove")})
                                   /\ lastOp' = Other
                       ELSE /\ ~removeThrows
                            /\ dataSources' = dataSources
                            /\ loads' = Resume(l, {At(l, "load")})
                            /\ lastOp' = Other
  /\ UNCHANGED <<kmlDataSource, hideLabels>>

\* LoadParsed that takes placemarkIndex from buildTreeFromKml as well.
LoadParsedInstallsIndex(l, removeThrows) ==
  /\ l \in Calls /\ l.pc = "text"
  /\ LET xml == DocLibrary[l.doc]
         root == findRootFeature(xml)
     IN IF xml.parsererror \/ root = NoEl
          THEN /\ ~removeThrows
               /\ loads' = Fail(l)
               /\ lastOp' = Op("loadFailed", l.prev, FALSE, "parse")
               /\ UNCHANGED <<state, dataSources>>
          ELSE LET built == buildTreeFromKml(root)
               IN /\ state' = [state EXCEPT !.fileName = l.doc,
                                            !.filterText = "",
                                            !.nodesById =
                                               [i \in DOMAIN built.nodesById |->
                                                  IF built.nodesById[i].tag # "Placemark"
                                                    THEN [built.nodesById[i] EXCEPT !.expanded = TRUE]
                                                    ELSE built.nodesById[i]],
                                            !.rootNodeId = built.rootNodeId,
                                            !.placemarkIndex = built.placemarkIndex]
                  /\ lastOp' = Other
                  /\ IF kmlDataSource # NoDataSource
                       THEN /\ dataSources' = IF removeThrows THEN dataSources
                                              ELSE dataSources \ {sourceId(kmlDataSource)}
                            /\ loads' = Resume(l, {[At(l, "remove") EXCEPT !.threw = removeThrows]})
                       ELSE /\ ~removeThrows
                            /\ dataSources' = dataSources
                            /\ loads' = Resume(l, {At(l, "load")})
  /\ UNCHANGED <<kmlDataSource, hideLabels>>

\* file.text() resolves: parse, find the root, install the tree, and either
\* fail (the handler's catch reports it) or go on to the next await: the
\* removal of the previous collection when there is one, which may throw,
\* else the load.
LoadParsed(l, removeThrows) ==
  /\ l \in Calls /\ l.pc = "text"
  /\ LET xml == DocLibrary[l.doc]
         root == findRootFeature(xml)
     IN IF xml.parsererror \/ root = NoEl
          THEN /\ ~removeThrows
               /\ loads' = Fail(l)
               /\ lastOp' = Op("loadFailed", l.prev, FALSE, "parse")
               /\ UNCHANGED <<state, dataSources>>
          ELSE LET built == buildTreeFromKml(root)
               IN /\ state' = [state EXCEPT !.fileName = l.doc,
                                            !.filterText = "",
                                            !.nodesById =
                                               [i \in DOMAIN built.nodesById |->
                                                  IF built.nodesById[i].tag # "Placemark"
                                                    THEN [built.nodesById[i] EXCEPT !.expanded = TRUE]
                                                    ELSE built.nodesById[i]],
                                            !.rootNodeId = built.rootNodeId]
                  /\ lastOp' = Other
                  /\ IF kmlDataSource # NoDataSource
                       THEN /\ dataSources' = IF removeThrows THEN dataSources
                                              ELSE dataSources \ {sourceId(kmlDataSource)}
                            /\ loads' = Resume(l, {[At(l, "remove") EXCEPT !.threw = removeThrows]})
                       ELSE /\ ~removeThrows
                            /\ dataSources' = dataSources
                            /\ loads' = Resume(l, {At(l, "load")})
  /\ UNCHANGED <<kmlDataSource, hideLabels>>

\* the await of viewer.dataSources.remove ends, by a value or by a rejection
\* that the catch ignores: Cesium.KmlDataSource.load is called.
LoadRemoved(l) ==
  /\ l \in Calls /\ l.pc = "remove"
  /\ loads' = Resume(l, {At(l, "load")})
  /\ lastOp' = Other
  /\ UNCHANGED <<state, kmlDataSource, dataSources, hideLabels>>

\* Cesium.KmlDataSource.load resolves with collection c: it becomes current, is
\* added to the viewer, both indexes are rebuilt and the visibility applied;
\* loadKml then awaits viewer.flyTo.
LoadResolved(l, c) ==
  /\ l \in Calls /\ l.pc = "load"
  /\ LET ds == [coll |-> c, doc |-> l.doc, entities |-> CollLibrary[c]]
         st1 == rebuildEntityIndex(state, ds)
         st2 == rebuildPlacemarkToEntityMap(st1, ds)
         r == applyVisibilityFromTree(st2, ds, hideLabels)
     IN /\ state' = r.state
        /\ kmlDataSource' = r.kmlDataSource
        /\ dataSources' = {sourceId(ds)}
  /\ loads' = Resume(l, {At(l, "fly")})
  /\ lastOp' = Op("loadResolved", l.doc, l.threw, l.burst)
  /\ UNCHANGED hideLabels

\* Cesium.KmlDataSource.load rejects: loadKml throws, the handler reports it.
LoadRejected(l) ==
  /\ l \in Calls /\ l.pc = "load"
  /\ loads' = Fail(l)
  /\ lastOp' = Op("loadFailed", l.prev, l.threw, "rejected")
  /\ UNCHANGED <<state, kmlDataSource, dataSources, hideLabels>>

\* viewer.flyTo ends, or rejects and viewer.zoomTo ends, either way: the
\* tree is rendered and loadKml returns.
LoadFlown(l) ==
  /\ l \in Calls /\ l.pc = "fly"
  /\ loads' = Resume(l, {})
  /\ lastOp' = Op("loadDone", l.doc, l.threw, l.burst)
  /\ UNCHANGED <<state, kmlDataSource, dataSources, hideLabels>>

Next ==
  \/ \E id \in DOMAIN state.nodesById : ToggleExpand(id)
  \/ \E id \in DOMAIN state.nodesById, checked \in BOOLEAN : ToggleChecked(id, checked)
  \/ ExpandAll
  \/ CollapseAll
  \/ CheckAll
  \/ UncheckAll
  \/ \E text \in FilterTexts : Search(text)
  \/ HideLabelsChange
  \/ \E d \in 1..MaxDoc : KmlInputChange(d)
  \/ \E l \in Calls, removeThrows \in BOOLEAN : LoadParsed(l, removeThrows)
  \/ \E l \in Calls : LoadRemoved(l)
  \/ \E l \in Calls, c \in 1..MaxColl : LoadResolved(l, c)
  \/ \E l \in Calls : LoadRejected(l)
  \/ \E l \in Calls : LoadFlown(l)

Spec == Init /\ [][Next]_vars

\* The loads on their own, MaxOverlap of them in flight at a time.
NextLoad ==
  \/ \E d \in 1..MaxDoc : StartLoad(d, MaxOverlap)
  \/ \E l \in Calls, removeThrows \in BOOLEAN : LoadParsed(l, removeThrows)
  \/ \E l \in Calls : LoadRemoved(l)
  \/ \E l \in Calls, c \in 1..MaxColl : LoadResolved(l, c)
  \/ \E l \in Calls : LoadRejected(l)
  \/ \E l \in Calls : LoadFlown(l)

SpecLoad == Init /\ [][NextLoad]_vars

\* ------------------------------------------- the core functions on their own

\* The documents that load: well-formed, with a Document or Folder root.
Loadable(d) == ~DocLibrary[d].parsererror /\ findRootFeature(DocLibrary[d]) # NoEl

\* The tree with its checkboxes set as chk and ind say.
withBoxes(nodes, chk, ind) ==
  [i \in DOMAIN nodes |-> [nodes[i] EXCEPT !.checked = chk[i], !.indeterminate = ind[i]]]

\* The state a load of document d into collection c is meant to leave (the
\* tree and the placemark index of buildTreeFromKml, the collection, both
\* indexes rebuilt), with any values in the checkboxes.
InitFn ==
  \E d \in {x \in 1..MaxFnDoc : Loadable(x)}, c \in 1..MaxFnColl, uhi \in BOOLEAN :
    LET built == buildTreeFromKml(findRootFeature(DocLibrary[d]))
        ids == DOMAIN built.nodesById
        ds == [coll |-> c, doc |-> d, entities |-> CollLibrary[c]]
    IN \E chk \in [ids -> BOOLEAN], ind \in [ids -> BOOLEAN] :
         LET st0 == [InitialState EXCEPT
                       !.fileName = d,
                       !.nodesById = withBoxes(built.nodesById, chk, ind),
                       !.rootNodeId = built.rootNodeId,
                       !.placemarkIndex = built.placemarkIndex,
                       !.userHasInteracted = uhi]
         IN /\ state = rebuildPlacemarkToEntityMap(rebuildEntityIndex(st0, ds), ds)
            /\ kmlDataSource = ds
            /\ dataSources = {sourceId(ds)}
            /\ hideLabels = FALSE
            /\ loads = EmptyBag
            /\ lastOp = Other

\* The children of f are a mix: one checked, one unchecked.
mixedChildren(nodes, f) ==
  /\ \E c \in Range(nodes[f].children) : nodes[c].checked
  /\ \E c \in Range(nodes[f].children) : ~nodes[c].checked

\* Only runs of recomputeIndeterminateUp have followed the last checkAll.
afterCheckAll ==
  \/ lastOp.op = "checkAll"
  \/ lastOp.op = "recomputeIndeterminateUp" /\ lastOp.pre = "checkAll"

FnSetCheckedRecursive(id, checked) ==
  /\ state' = [state EXCEPT !.nodesById = setCheckedRecursive(@, id, checked)]
  /\ lastOp' = Op("setCheckedRecursive", id, checked, "")
  /\ UNCHANGED <<kmlDataSource, dataSources, hideLabels, loads>>

FnRecomputeIndeterminateUp(id) ==
  /\ state' = [state EXCEPT !.nodesById = recomputeIndeterminateUp(@, id)]
  /\ lastOp' = Op("recomputeIndeterminateUp", id, FALSE,
                  IF afterCheckAll THEN "checkAll"
                  ELSE IF mixedChildren(state.nodesById, id) THEN "mixed" ELSE "")
  /\ UNCHANGED <<kmlDataSource, dataSources, hideLabels, loads>>

\* The query, of a node id or of an id the tree does not hold.
FnGetEffectiveChecked(id) ==
  /\ lastOp' = Op("getEffectiveChecked", id, getEffectiveChecked(state.nodesById, id), "")
  /\ UNCHANGED <<state, kmlDataSource, dataSources, hideLabels, loads>>

FnRebuild ==
  /\ state' = rebuildPlacemarkToEntityMap(rebuildEntityIndex(state, kmlDataSource),
                                          kmlDataSource)
  /\ lastOp' = Op("rebuildPlacemarkToEntityMap", 0, FALSE,
                  IF mapEmpty(state) THEN "empty" ELSE "mapped")
  /\ UNCHANGED <<kmlDataSource, dataSources, hideLabels, loads>>

\* buildTreeFromKml on the root feature of the state's document.
FnBuildTree ==
  /\ LET built == buildTreeFromKml(findRootFeature(DocLibrary[state.fileName]))
     IN state' = [state EXCEPT !.nodesById = built.nodesById,
                               !.rootNodeId = built.rootNodeId,
                               !.placemarkIndex = built.placemarkIndex]
  /\ lastOp' = Op("buildTreeFromKml", 0, FALSE, "")
  /\ UNCHANGED <<kmlDataSource, dataSources, hideLabels, loads>>

FnApplyVisibility ==
  /\ Project(state, hideLabels, "applyVisibilityFromTree", 0, FALSE)
  /\ UNCHANGED <<dataSources, hideLabels, loads>>

NextFn ==
  \/ \E id \in DOMAIN state.nodesById, checked \in BOOLEAN : FnSetCheckedRecursive(id, checked)
  \/ \E id \in DOMAIN state.nodesById : FnRecomputeIndeterminateUp(id)
  \/ \E id \in 1..(Len(state.nodesById) + 1) : FnGetEffectiveChecked(id)
  \/ FnRebuild
  \/ FnBuildTree
  \/ FnApplyVisibility
  \/ \E id \in DOMAIN state.nodesById, checked \in BOOLEAN : ToggleChecked(id, checked)
  \/ CheckAll
  \/ UncheckAll

SpecFn == InitFn /\ [][NextFn]_vars

\* ------------------------------------------------------------- properties

Nodes == state.nodesById
Ents == kmlDataSource.entities

RECURSIVE ancestorsOrSelf(_, _)
\* The node and the nodes above it, up to the root.
ancestorsOrSelf(nodes, id) ==
  {id} \cup (IF nodes[id].parentId = 0 THEN {} ELSE ancestorsOrSelf(nodes, nodes[id].parentId))

ancestors(nodes, id) == ancestorsOrSelf(nodes, id) \ {id}

\* The nodes of the subtree under (and with) id.
subtree(nodes, id) == {m \in DOMAIN nodes : id \in ancestorsOrSelf(nodes, m)}

allClean(nodes) == \A i \in DOMAIN nodes : nodes[i].checked /\ ~nodes[i].indeterminate

\* The operations that end in a run of applyVisibilityFromTree.
ProjectOps == {"applyVisibilityFromTree", "hideLabels", "toggleChecked", "checkAll", "uncheckAll"}

\* The document and the collection of the scenario are loaded, no load pending.
ScenarioLoaded ==
  /\ loads = EmptyBag
  /\ state.fileName = 1 /\ kmlDataSource.doc = 1 /\ kmlDataSource.coll = 1

\* The entity of the current collection nearest to coordinate c.
nearestTo(c) ==
  CHOOSE i \in DOMAIN Ents :
    \A j \in DOMAIN Ents :
      haversineMeters(c, Ents[i].position) <= haversineMeters(c, Ents[j].position)

\* C1: with the scenario loaded (Root{A{P1 'Site' at C1a, P2 'Site' at C2a}}, two
\* 'Site' entities at those coordinates), uncheckAll followed by checking P1
\* (node 3) leaves the entity nearest C1a shown and the other hidden.
C1_ScenarioShowsOnlyP1 ==
  [][(ScenarioLoaded /\ lastOp.op = "uncheckAll" /\ ToggleChecked(3, TRUE))
       => \A i \in DOMAIN Ents : kmlDataSource'.entities[i].show <=> (i = nearestTo(C1a))]_vars

\* C2: a run of applyVisibilityFromTree that starts with an empty map, or
\* before any interaction, leaves every entity of the collection shown,
\* whatever the checkboxes say.
C2_FailOpen ==
  (lastOp.op \in ProjectOps /\ (lastOp.pre = "empty" \/ ~state.userHasInteracted))
    => \A i \in DOMAIN Ents : Ents[i].show

\* C2 witness: the run took place before any interaction, with a map that is
\* not empty and a placemark that is unchecked, and nothing is hidden.
C2_Witness ==
  /\ lastOp.op = "applyVisibilityFromTree" /\ lastOp.pre = "mapped"
  /\ ~state.userHasInteracted
  /\ \E n \in DOMAIN Nodes :
       /\ Nodes[n].tag = "Placemark" /\ ~Nodes[n].checked
       /\ Nodes[n].placemarkKeys[1] \in DOMAIN state.placemarkToEntity
  /\ Ents # <<>> /\ \A i \in DOMAIN Ents : Ents[i].show

\* The entity is mapped under the key of a placemark that is checked together
\* with all the nodes above it.
enabledEntity(i) ==
  \E n \in DOMAIN Nodes :
    /\ Nodes[n].tag = "Placemark"
    /\ \A a \in ancestorsOrSelf(Nodes, n) : Nodes[a].checked
    /\ \E k \in Range(Nodes[n].placemarkKeys) :
         k \in DOMAIN state.placemarkToEntity /\ i \in Range(state.placemarkToEntity[k])

\* C3: a run of applyVisibilityFromTree that starts with a map that is not
\* empty, after an interaction, shows exactly the entities mapped under the key
\* of an effectively checked placemark; all others, the unmapped ones
\* included, are hidden.
C3_Authoritative ==
  (lastOp.op \in ProjectOps /\ lastOp.pre = "mapped" /\ state.userHasInteracted)
    => \A i \in DOMAIN Ents : Ents[i].show <=> enabledEntity(i)

\* C3 witness: such a run showed one entity, hid an unmapped one, and hid the
\* entity of a placemark that is checked under an unchecked ancestor.
C3_Witness ==
  /\ lastOp.op = "applyVisibilityFromTree" /\ lastOp.pre = "mapped"
  /\ state.userHasInteracted
  /\ \E i \in DOMAIN Ents : Ents[i].show
  /\ \E i \in DOMAIN Ents :
       /\ ~Ents[i].show
       /\ \A k \in DOMAIN state.placemarkToEntity : i \notin Range(state.placemarkToEntity[k])
  /\ \E n \in DOMAIN Nodes :
       /\ Nodes[n].tag = "Placemark" /\ Nodes[n].checked
       /\ ~getEffectiveChecked(Nodes, n)
       /\ \E k \in Range(Nodes[n].placemarkKeys) :
            /\ k \in DOMAIN state.placemarkToEntity
            /\ \A i \in Range(state.placemarkToEntity[k]) : ~Ents[i].show

\* C4: after rebuildEntityIndex and rebuildPlacemarkToEntityMap no entity is in
\* the sequences of two different keys of the map.
C4_Injective ==
  lastOp.op = "rebuildPlacemarkToEntityMap"
    => \A k1, k2 \in DOMAIN state.placemarkToEntity :
         k1 # k2 => Range(state.placemarkToEntity[k1]) \cap Range(state.placemarkToEntity[k2]) = {}

\* C5: uncheckAll leaves every node but the root unchecked and not
\* indeterminate, and the root checked and indeterminate.
C5_UncheckAll ==
  lastOp.op = "uncheckAll"
    => \A n \in DOMAIN Nodes :
         IF n = state.rootNodeId
           THEN Nodes[n].checked /\ Nodes[n].indeterminate
           ELSE ~Nodes[n].checked /\ ~Nodes[n].indeterminate

\* C5 witness: uncheckAll has run on the four-node tree.
C5_Witness ==
  /\ lastOp.op = "uncheckAll"
  /\ Len(Nodes) = 4 /\ state.rootNodeId = 1
  /\ Nodes[1].indeterminate /\ ~Nodes[4].checked

\* C6: after checkAll, and after any number of runs of recomputeIndeterminateUp
\* that follow it, every node is checked and not indeterminate.
C6_CheckAllThenRecompute ==
  afterCheckAll => allClean(Nodes)

\* C6 witness: recomputeIndeterminateUp has run from a placemark two levels
\* down, after a checkAll.
C6_Witness ==
  /\ lastOp.op = "recomputeIndeterminateUp" /\ lastOp.pre = "checkAll"
  /\ Cardinality(ancestorsOrSelf(Nodes, lastOp.node)) = 3
  /\ allClean(Nodes)

\* C7: getEffectiveChecked(n) is true exactly when n and every node above it,
\* the root included, is checked; it is false of an id the tree does not hold.
C7_EffectiveChecked ==
  lastOp.op = "getEffectiveChecked"
    => (lastOp.val <=> (/\ lastOp.node \in DOMAIN Nodes
                        /\ \A a \in ancestorsOrSelf(Nodes, lastOp.node) : Nodes[a].checked))

\* C7 witness: the query answered false for a checked placemark under a checked
\* folder under an unchecked root.
C7_Witness ==
  /\ lastOp.op = "getEffectiveChecked" /\ ~lastOp.val
  /\ lastOp.node \in DOMAIN Nodes
  /\ Nodes[lastOp.node].checked
  /\ Nodes[lastOp.node].parentId # 0
  /\ Nodes[Nodes[lastOp.node].parentId].checked
  /\ ~Nodes[state.rootNodeId].checked

\* The folder's own fields are what the classification of its children gives.
classified(nodes, a) ==
  LET kids == Range(nodes[a].children)
      allChecked == \A c \in kids : nodes[c].checked /\ ~nodes[c].indeterminate
      allUnchecked == \A c \in kids : ~nodes[c].checked /\ ~nodes[c].indeterminate
  IN IF allChecked THEN nodes[a].checked /\ ~nodes[a].indeterminate
     ELSE IF allUnchecked THEN ~nodes[a].checked /\ ~nodes[a].indeterminate
     ELSE nodes[a].checked /\ nodes[a].indeterminate

\* C8: right after toggleChecked(n, v) every node above n that has children is
\* classified as its children's fields say, and every node of n's subtree has
\* checked = v and is not indeterminate.
C8_TriStateConsistent ==
  lastOp.op = "toggleChecked"
    => /\ \A a \in ancestors(Nodes, lastOp.node) :
            Len(Nodes[a].children) > 0 => classified(Nodes, a)
       /\ \A m \in subtree(Nodes, lastOp.node) :
            Nodes[m].checked = lastOp.val /\ ~Nodes[m].indeterminate

\* C8 witness: a placemark two levels down was unchecked beside a checked
\* sibling, and both nodes above it are indeterminate.
C8_Witness ==
  /\ lastOp.op = "toggleChecked" /\ ~lastOp.val
  /\ Cardinality(ancestors(Nodes, lastOp.node)) = 2
  /\ \A a \in ancestors(Nodes, lastOp.node) : Nodes[a].checked /\ Nodes[a].indeterminate

\* C9: an indeterminate node is checked, is no placemark, and has a child.
C9_IndeterminateHasChildren ==
  \A n \in DOMAIN Nodes :
    Nodes[n].indeterminate
      => Nodes[n].checked /\ Nodes[n].tag # "Placemark" /\ Len(Nodes[n].children) > 0

\* C10: recomputeIndeterminateUp(f) on a folder with a checked and an
\* unchecked child leaves f, and every node above it, checked and indeterminate.
C10_MixedPropagates ==
  (lastOp.op = "recomputeIndeterminateUp" /\ lastOp.pre = "mixed")
    => \A a \in ancestorsOrSelf(Nodes, lastOp.node) :
         Nodes[a].checked /\ Nodes[a].indeterminate

\* C10 witness: the folder is below the root, and its children are still mixed.
C10_Witness ==
  /\ lastOp.op = "recomputeIndeterminateUp" /\ lastOp.pre = "mixed"
  /\ Nodes[lastOp.node].parentId # 0
  /\ mixedChildren(Nodes, lastOp.node)
  /\ Nodes[state.rootNodeId].indeterminate

\* The tree buildTreeFromKml gives for document d; none for no document.
treeOfDoc(d) ==
  IF d = 0 THEN [nodesById |-> <<>>, rootNodeId |-> 0]
  ELSE LET built == buildTreeFromKml(findRootFeature(DocLibrary[d]))
       IN [nodesById |-> built.nodesById, rootNodeId |-> built.rootNodeId]

\* The nodes without the fields the user's clicks change.
shape(nodes) ==
  [i \in DOMAIN nodes |->
     <<nodes[i].parentId, nodes[i].name, nodes[i].tag, nodes[i].children, nodes[i].placemarkKeys>>]

\* The current collection, when there is one, is attached to the viewer.
attached == kmlDataSource # NoDataSource => sourceId(kmlDataSource) \in dataSources

\* C11: when loadKml has failed (parse error, no Document/Folder root, or the
\* renderer's load rejected) the installed tree and root are those of the
\* document installed when the call started, the map is as it was, and the
\* current collection is still attached to the viewer.
C11_FailedLoadLeavesState ==
  lastOp.op = "loadFailed"
    => /\ shape(Nodes) = shape(treeOfDoc(lastOp.node).nodesById)
       /\ state.rootNodeId = treeOfDoc(lastOp.node).rootNodeId
       /\ mapEmpty(state)
       /\ attached

\* C12: when a loadKml call started while another was suspended, and all the
\* calls have returned, the installed tree, the entity index and the current
\* collection come from one document.
C12_NoMixingAfterOverlap ==
  (lastOp.op = "loadDone" /\ lastOp.pre = "overlap" /\ loads = EmptyBag)
    => /\ state.fileName = kmlDataSource.doc
       /\ shape(Nodes) = shape(treeOfDoc(kmlDataSource.doc).nodesById)
       /\ state.rootNodeId = treeOfDoc(kmlDataSource.doc).rootNodeId
       /\ state.entityIndex = entityIndexFrom(kmlDataSource.entities, 1, EmptyMap)

\* C13: a removal of the previous collection that throws ends no loadKml
\* call: the call is then suspended at the removal, at the load or at the
\* flight, a failed call failed at the parse or at the renderer's load, and
\* when the load of such a call resolves the new collection is current and
\* attached, the entity index and the map are rebuilt from it, the visibility
\* is applied and the call goes on.
C13_RemoveFailureSwallowed ==
  /\ \A l \in Calls : l.threw => l.pc \in {"remove", "load", "fly"}
  /\ lastOp.op = "loadFailed" => lastOp.pre \in {"parse", "rejected"}
  /\ (lastOp.op = "loadResolved" /\ lastOp.val)
       => /\ kmlDataSource.doc = lastOp.node /\ kmlDataSource.coll # 0
          /\ sourceId(kmlDataSource) \in dataSources
          /\ state.entityIndex = entityIndexFrom(kmlDataSource.entities, 1, EmptyMap)
          /\ state.placemarkToEntity = rebuildPlacemarkToEntityMap(state, kmlDataSource).placemarkToEntity
          /\ kmlDataSource = applyVisibilityFromTree(state, kmlDataSource, hideLabels).kmlDataSource
          /\ \E l \in Calls : l.pc = "fly" /\ l.doc = lastOp.node /\ l.threw

\* C13 witness: the load of a call whose removal threw has resolved, and a
\* collection of another document was current before.
C13_Witness ==
  /\ lastOp.op = "loadResolved" /\ lastOp.val
  /\ kmlDataSource.doc = lastOp.node
  /\ \E l \in Calls : l.pc = "fly" /\ l.threw /\ l.prev # 0 /\ l.prev # l.doc

\* C14: after a run of applyVisibilityFromTree with a loaded collection, in a
\* handler or when a load resolves, every entity that has a label has
\* label.show equal to the negation of the hide-labels flag, and likewise every
\* entity that has a billboard.
C14_LabelsFollowFlag ==
  (lastOp.op \in ProjectOps \cup {"loadResolved"} /\ kmlDataSource # NoDataSource)
    => \A i \in DOMAIN Ents :
         /\ Ents[i].label => Ents[i].labelShow = ~hideLabels
         /\ Ents[i].billboard => Ents[i].billboardShow = ~hideLabels

\* The checkbox fields of the nodes.
boxes(nodes) == [i \in DOMAIN nodes |-> <<nodes[i].checked, nodes[i].indeterminate>>]

\* The state without the expanded fields and the filter text.
withoutNavigation(st) ==
  [st EXCEPT !.nodesById = [i \in DOMAIN st.nodesById |-> [st.nodesById[i] EXCEPT !.expanded = FALSE]],
             !.filterText = ""]

\* A step of a navigation handler: a twisty, expandAll, collapseAll, the search box.
NavigationStep ==
  \/ \E id \in DOMAIN state.nodesById : ToggleExpand(id)
  \/ ExpandAll
  \/ CollapseAll
  \/ \E text \in FilterTexts : Search(text)

\* C15: toggleExpand, expandAll, collapseAll and the search input leave every
\* node's checked and indeterminate, userHasInteracted, the map and every
\* entity's show as they were; they change expanded fields and filterText only.
C15_NavigationFrame ==
  [][NavigationStep
       => /\ boxes(state'.nodesById) = boxes(state.nodesById)
          /\ state'.userHasInteracted = state.userHasInteracted
          /\ state'.placemarkToEntity = state.placemarkToEntity
          /\ DOMAIN kmlDataSource'.entities = DOMAIN Ents
          /\ \A i \in DOMAIN Ents : kmlDataSource'.entities[i].show = Ents[i].show
          /\ withoutNavigation(state') = withoutNavigation(state)]_vars

\* C15 witness: a folder below the root is collapsed and the filter is set,
\* in a tree with an unchecked placemark, an indeterminate folder and a loaded
\* collection, after an interaction.
C15_Witness ==
  /\ state.filterText # ""
  /\ state.userHasInteracted /\ kmlDataSource # NoDataSource
  /\ \E n \in DOMAIN Nodes :
       /\ Nodes[n].parentId # 0 /\ Len(Nodes[n].children) > 0
       /\ ~Nodes[n].expanded /\ Nodes[n].indeterminate
  /\ \E n \in DOMAIN Nodes : Nodes[n].tag = "Placemark" /\ ~Nodes[n].checked

\* The entities claimed before entry i of the placemark index is processed:
\* those recorded under the keys of the entries before it.
usedBefore(i) ==
  UNION {Range(state.placemarkToEntity[state.placemarkIndex[j].key]) :
           j \in {k \in 1..(i - 1) : state.placemarkIndex[k].key \in DOMAIN state.placemarkToEntity}}

\* The pool of entry i: the entities with geometry of the placemark's trimmed
\* name that are not yet claimed.
pool(i) ==
  {e \in DOMAIN Ents :
     /\ hasGeometry(Ents[e])
     /\ Trim(Ents[e].name) = Trim(getFeatureName(state.placemarkIndex[i].placemarkEl))
     /\ e \notin usedBefore(i)}

\* The entity the name rule gives entry i from a pool that is not empty.
poolChoice(i) ==
  LET pmCoord == firstCoordFromPlacemark(state.placemarkIndex[i].placemarkEl)
      located == {e \in pool(i) : firstCoordFromEntity(Ents[e]) # <<>>}
      first(S) == CHOOSE e \in S : \A f \in S : e <= f
  IN IF Cardinality(pool(i)) > 1 /\ pmCoord # <<>> /\ located # {}
       THEN first({e \in located :
                     \A f \in located :
                       haversineMeters(pmCoord, firstCoordFromEntity(Ents[e]))
                         <= haversineMeters(pmCoord, firstCoordFromEntity(Ents[f]))})
       ELSE first(pool(i))

\* C16: after rebuildPlacemarkToEntityMap, a placemark whose name had an
\* unclaimed entity with geometry when it was processed is mapped to exactly
\* one entity of that pool (the only one, else the nearest of those with a
\* coordinate, else the first), with or without a coordinate of its own; the
\* exact-key fallback serves only the placemarks whose pool was empty.
C16_NamePoolAssignment ==
  lastOp.op = "rebuildPlacemarkToEntityMap"
    => \A i \in DOMAIN state.placemarkIndex :
         LET key == state.placemarkIndex[i].key
         IN IF pool(i) # {}
              THEN /\ key \in DOMAIN state.placemarkToEntity
                   /\ state.placemarkToEntity[key] = <<poolChoice(i)>>
              ELSE key \in DOMAIN state.placemarkToEntity
                     => state.placemarkToEntity[key] = exactMatch(state.entityIndex, key)

\* The map the two rebuilds give for the placemark index with collection c.
mapFor(c) ==
  LET ds == [coll |-> c, doc |-> kmlDataSource.doc, entities |-> CollLibrary[c]]
  IN rebuildPlacemarkToEntityMap(rebuildEntityIndex(state, ds), ds).placemarkToEntity

\* Maps the state may hold from earlier: none, and those of the collections.
PrevMaps == {EmptyMap} \cup {mapFor(c) : c \in 1..MaxFnColl}

\* The map the two rebuilds leave when they start with map prev in the state.
rerunFrom(prev) ==
  LET st == [state EXCEPT !.placemarkToEntity = prev]
  IN rebuildPlacemarkToEntityMap(rebuildEntityIndex(st, kmlDataSource), kmlDataSource).placemarkToEntity

C18_OnlyGeometryMatched ==
  lastOp.op = "rebuildPlacemarkToEntityMap"
    => \A k \in DOMAIN state.placemarkToEntity :
         \A e \in Range(state.placemarkToEntity[k]) : hasGeometry(Ents[e])

\* C19: once a document is loaded with its collection, in a tree with nodes
\* below the root, if every node but the root is unchecked then the root is
\* checked and indeterminate.
C19_NothingSelectedIsMixedRoot ==
  (/\ kmlDataSource # NoDataSource /\ kmlDataSource.doc = state.fileName
   /\ Len(Nodes) > 1
   /\ \A n \in DOMAIN Nodes : n # state.rootNodeId => ~Nodes[n].checked)
    => Nodes[state.rootNodeId].checked /\ Nodes[state.rootNodeId].indeterminate

\* C20: in the tree buildTreeFromKml gives, a placemark node has one key and
\* is not expanded; a folder node's keys are, as a set, the union of its
\* children's keys, none twice, and the folder is expanded; every node is
\* checked and not indeterminate.
C20_BuiltTree ==
  lastOp.op = "buildTreeFromKml"
    => \A n \in DOMAIN Nodes :
         /\ Nodes[n].checked /\ ~Nodes[n].indeterminate
         /\ IF Nodes[n].tag = "Placemark"
              THEN Len(Nodes[n].placemarkKeys) = 1 /\ ~Nodes[n].expanded
              ELSE /\ Range(Nodes[n].placemarkKeys)
                        = UNION {Range(Nodes[c].placemarkKeys) : c \in Range(Nodes[n].children)}
                   /\ Cardinality(Range(Nodes[n].placemarkKeys)) = Len(Nodes[n].placemarkKeys)
                   /\ Nodes[n].expanded

\* C20 witness: the tree built has a folder of two placemarks whose keys are
\* one and the same.
C20_Witness ==
  /\ lastOp.op = "buildTreeFromKml"
  /\ \E n \in DOMAIN Nodes :
       /\ Len(Nodes[n].children) = 2
       /\ \A c \in Range(Nodes[n].children) : Nodes[c].tag = "Placemark"
       /\ Len(Nodes[n].placemarkKeys) = 1

\* C21: in every state the program reaches, a node that is unchecked has only
\* unchecked nodes below it, so that getEffectiveChecked(n) is n's own checked
\* for every node n.
C21_NoMasking ==
  \A n \in DOMAIN Nodes :
    /\ ~Nodes[n].checked => \A m \in subtree(Nodes, n) : ~Nodes[m].checked
    /\ getEffectiveChecked(Nodes, n) = Nodes[n].checked

\* C21 witness: a placemark two levels down was checked beside an unchecked
\* sibling, with a collection loaded, and the nodes above it are checked.
C21_Witness ==
  /\ lastOp.op = "toggleChecked" /\ lastOp.val
  /\ kmlDataSource # NoDataSource /\ kmlDataSource.doc = state.fileName
  /\ Cardinality(ancestors(Nodes, lastOp.node)) = 2
  /\ \E m \in DOMAIN Nodes :
       /\ m # lastOp.node /\ Nodes[m].parentId = Nodes[lastOp.node].parentId
       /\ ~Nodes[m].checked
  /\ \A a \in ancestorsOrSelf(Nodes, lastOp.node) : Nodes[a].checked

====
